---------------------------- MODULE Spec2Model ----------------------------
(***************************************************************************)
(* A model of the noesis telemetry bridge (services/noesis-bridge):        *)
(*   - writer.py   EventWriter: the date-partitioned JSONL event log       *)
(*   - bridge.py   MuxClient / main: connect, login, receive, parse,       *)
(*                 validate, write, reconnect, heartbeat; KeepAlive        *)
(* and of the run driver of the bot (services/elias-bot):                  *)
(*   - elias_mux_bot.py   main: connect, login, loop, back off, retry      *)
(***************************************************************************)
EXTENDS Integers, Sequences, FiniteSets, TLC

(***************************************************************************)
(* Bounds of the model.                                                    *)
(***************************************************************************)
MaxDay == 2
MaxWrites == 3
MaxRx == 2
MaxConn == 2
MaxHb == 2
MaxFail == 9
HbChunk == 3

(***************************************************************************)
(* Python's None and Optional values: None is the empty sequence, a value  *)
(* x is <<x>>; "if v:" on an Optional is v # None.                         *)
(***************************************************************************)
None == <<>>
Some(x) == <<x>>

VARIABLES
    \* ---- the clock and the file system
    today,          \* index of the current UTC day
    files,          \* existing path -> the file's content as the OS shows it (tokens)
    durable,        \* path -> how many tokens of the file are on the storage device
    openHandles,    \* the paths of the file handles that are open, in opening order
    peakOpen,       \* the largest number of handles open at once so far
    rotations,      \* how often _ensure_open closed an open handle to open another file
    \* ---- EventWriter (writer.py)
    w_current_day,
    w_fh,
    w_current_path,
    \* ---- history of the writer's calls
    written,        \* the write_event calls that returned: <<[day, event]>>
    machine,        \* "up" | "proc_crashed" | "machine_crashed"
    \* ---- bridge.py: main's locals and the MuxClient
    mode,           \* cfg.mode_name: "dry_run" | "record"
    run_id,         \* main's run_id
    pc,             \* where the primary loop of main is
    reconnecting,   \* whether connect/login run inside reconnect()
    exit_code,      \* None while main runs, then what main returned
    exit_cause,     \* "" while main runs, then the exception that ended it
    sock,           \* mux.sock: None or the connection it is the socket of
    seq,
    events_written,
    buffer,         \* main's buffer: the received text not yet split into lines
    \* ---- the network and the far end
    netOpen,        \* the connections whose local socket is open
    connCount,      \* how many connections were established so far
    srvRest,        \* what the server still has to send of the line it is sending
    rxCount,        \* how many lines the server began to send so far
    linkUp,         \* whether the connection last established is still up
    \* ---- history of the bridge
    authed,         \* the connections on which the authentication command was sent
    elog,           \* one entry per record appended to the event log, in order
    droplog,        \* the lines reported "[telemetry] drop" in the technical log
    loginRx,        \* the lines of which a part arrived inside a window of login
    feed,           \* the lines the far end may send in this run
    idle,           \* whether nothing was received for 60 s
    \* ---- bridge.py: the heartbeat (main, write_json_atomic)
    hbDue,          \* now - last_hb_emit >= 30.0
    hb_count,       \* how many heartbeats main began to emit
    hb,             \* main's local hb: None or the snapshot being emitted
    hbDir,          \* the existing files of the heartbeat: path -> content (tokens)
    \* ---- bridge.py: the KeepAlive thread
    ka_pc,          \* "off" | "sleep" | "checked" | "sending" | "dead"
    ka_log,         \* the exception KeepAlive.run caught and logged last, "" if none
    ping,           \* None or the "+ping" line sent last: [login_done, idle]
    \* ---- elias_mux_bot.py: main, the run driver
    d_pc,           \* "new" | "connect" | "login" | "loop" | "failed" | "dead"
    backoff,        \* main's backoff, in units of 10^-7
    d_k,            \* how many sessions failed in a row, since the last login that succeeded
    d_total,        \* how many sessions failed so far
    d_waited,       \* how long main slept after the last failure, in units of 10^-7
    \* ---- elias_mux_bot.py: smart_decode and strip_telnet_iac
    t_data,         \* data: the bytes smart_decode was called with
    t_i,            \* strip_telnet_iac's cursor i, counted from 0
    t_out,          \* strip_telnet_iac's out
    t_pc,           \* "off" | "call" | "scan" | "sb" | "stripped" | "returned" | "raised"
    t_sb,           \* None or where the subnegotiation block being skipped began
    t_text,         \* None or the string smart_decode returned (code points)
    \* ---- elias_mux_bot.py: EliasMuxBot, the session of the bot
    b_sock,         \* bot.sock: None or the connection it is the socket of
    b_open,         \* the connections of the bot whose local socket is open
    b_peer,         \* "none" | "open" | "closed": what the far end did to the connection
    b_eof,          \* whether loop() went on after a zero-length read on this bot
    b_last          \* None or the line loop() handled last: [line, replies, done]

\* The writer, the file system and the machine.
wvars == <<files, durable, openHandles, peakOpen, rotations, w_current_day,
           w_fh, w_current_path, written, machine>>

\* The bridge and the network.
bvars == <<mode, run_id, pc, reconnecting, exit_code, exit_cause, sock, seq,
           events_written, buffer, netOpen, connCount, srvRest, rxCount, linkUp,
           authed, elog, droplog, loginRx>>

\* The heartbeat.
hvars == <<hbDue, hb_count, hb, hbDir>>

\* The keepalive thread.
kvars == <<ka_pc, ka_log, ping>>

\* The run driver of the bot (elias_mux_bot.py, main).
dvars == <<d_pc, backoff, d_k, d_total, d_waited>>

\* The stream decoder of the bot.
xvars == <<t_data, t_i, t_out, t_pc, t_sb, t_text>>

\* The decoder and the session of the bot.
\* The session of the bot.
svars == <<b_sock, b_open, b_peer, b_eof, b_last>>

evars == <<xvars, svars>>

tvars == <<hvars, kvars, feed, dvars, evars>>

vars == <<today, wvars, bvars, tvars, idle>>

(***************************************************************************)
(* writer.py: utc_day, events_path                                         *)
(***************************************************************************)
\* The UTC calendar day of clock value n: 2025-12-31, 2026-01-01, 2026-01-02, ...
DayOf(n) ==
    IF n <= 1 THEN [y |-> 2025, m |-> 12, d |-> 30 + n]
              ELSE [y |-> 2026, m |-> 1, d |-> n - 1]

utc_day == DayOf(today)

\* out_dir / "events" / day[:4] / day[:7] / "events-<day>.jsonl"
events_path(day) ==
    [year |-> day.y, month |-> <<day.y, day.m>>, name |-> <<day.y, day.m, day.d>>]

AllDays == {DayOf(n) : n \in 1..MaxDay}
AllPaths == {events_path(d) : d \in AllDays}

(***************************************************************************)
(* json.dumps(event, ensure_ascii=False) and the text of a file.           *)
(* An event is [meta |-> a record of its scalar fields, text |-> its       *)
(* string content as a sequence of characters].  A file is a sequence of   *)
(* tokens: the object's scalar part, plain characters, the two-character   *)
(* escape \n that json.dumps writes for a line feed inside a string, and   *)
(* the line feed itself.                                                   *)
(***************************************************************************)
LF == "\n"
TokObj(meta) == [c |-> "obj", v |-> meta]
TokCh(ch) == [c |-> "ch", v |-> ch]
TokEsc == [c |-> "esc"]
TokLF == [c |-> "lf"]

\* A serializer that copies a line feed inside a string as it is.
json_dumps_raw(event) ==
    <<TokObj(event.meta)>> \o
    [i \in 1..Len(event.text) |->
        IF event.text[i] = LF THEN TokLF ELSE TokCh(event.text[i])]

json_dumps(event) ==
    <<TokObj(event.meta)>> \o
    [i \in 1..Len(event.text) |->
        IF event.text[i] = LF THEN TokEsc ELSE TokCh(event.text[i])]

\* The lines of a text: the token runs ended by a line feed (a reader's split).
RECURSIVE FileLines(_)
FileLines(txt) ==
    IF \A i \in 1..Len(txt) : txt[i] # TokLF THEN <<>>
    ELSE LET k == CHOOSE i \in 1..Len(txt) :
                      txt[i] = TokLF /\ \A j \in 1..(i - 1) : txt[j] # TokLF
         IN <<SubSeq(txt, 1, k - 1)>> \o FileLines(SubSeq(txt, k + 1, Len(txt)))

\* What follows the last line feed of a text (an unterminated last line).
RECURSIVE FileRest(_)
FileRest(txt) ==
    IF \A i \in 1..Len(txt) : txt[i] # TokLF THEN txt
    ELSE LET k == CHOOSE i \in 1..Len(txt) :
                      txt[i] = TokLF /\ \A j \in 1..(i - 1) : txt[j] # TokLF
         IN FileRest(SubSeq(txt, k + 1, Len(txt)))

\* json.loads of one line: the event, or BadRecord when the line is no object.
BadRecord == [meta |-> [bad |-> TRUE], text |-> <<>>]
json_loads(line) ==
    IF Len(line) = 0 \/ line[1].c # "obj" \/ \E i \in 2..Len(line) : line[i].c = "obj"
    THEN BadRecord
    ELSE [meta |-> line[1].v,
          text |-> [i \in 1..(Len(line) - 1) |->
                       IF line[i + 1].c = "esc" THEN LF ELSE line[i + 1].v]]

(***************************************************************************)
(* writer.py: EventWriter                                                  *)
(***************************************************************************)
RemoveFirst(s, x) ==
    IF \A i \in 1..Len(s) : s[i] # x THEN s
    ELSE LET k == CHOOSE i \in 1..Len(s) : s[i] = x /\ \A j \in 1..(i - 1) : s[j] # x
         IN SubSeq(s, 1, k - 1) \o SubSeq(s, k + 1, Len(s))

Max(a, b) == IF a >= b THEN a ELSE b

\* The handles left open by close(): "if self._fh: self._fh.close()".
HandlesAfterClose(fh, handles) ==
    IF fh # None THEN RemoveFirst(handles, fh[1]) ELSE handles

\* EventWriter.close
close ==
    /\ openHandles' = HandlesAfterClose(w_fh, openHandles)
    /\ w_fh' = None
    /\ w_current_day' = None
    /\ w_current_path' = None

\* Whether _ensure_open(day) returns at once: "if self._fh and self._current_day == day".
StillOpen(day) == w_fh # None /\ w_current_day = Some(day)

\* A rotation that opens the new file without closing the handle it holds.
RotateKeptOpen == openHandles

\* The handles after the rotation's self.close(), before the new file is opened.
RotateClosed == HandlesAfterClose(w_fh, openHandles)

\* open(path, "a") creates the file when it is missing; fh.write(text) followed by
\* fh.flush() hands the text to the operating system, at the end of the file.
FileAppend(fs, path, text) ==
    [p \in (DOMAIN fs) \cup {path} |->
        IF p = path THEN (IF p \in DOMAIN fs THEN fs[p] ELSE <<>>) \o text
                    ELSE fs[p]]

\* EventWriter._ensure_open followed by the write and the flush of write_event:
\* the new values of the writer's fields, of the handles and of the file.
write_event(event) ==
    LET day == utc_day
        path == events_path(day)
        line == json_dumps(event) \o <<TokLF>>
    IN /\ IF StillOpen(day)
          THEN /\ UNCHANGED <<w_fh, w_current_day, w_current_path, openHandles,
                              peakOpen, rotations>>
               /\ files' = FileAppend(files, w_fh[1], line)
          ELSE /\ openHandles' = Append(RotateClosed, path)
               /\ peakOpen' = Max(peakOpen, Len(RotateClosed) + 1)
               /\ rotations' = IF w_fh # None THEN rotations + 1 ELSE rotations
               /\ w_fh' = Some(path)
               /\ w_current_day' = Some(day)
               /\ w_current_path' = Some(path)
               /\ files' = FileAppend(files, path, line)
       /\ written' = Append(written, [day |-> day, event |-> event])

(***************************************************************************)
(* The writer on its own, as _writer_smoketest.py drives it.               *)
(***************************************************************************)
\* The lines the far end may send.
L_SAY == <<"NOESIS", ":", " ", "t", "=", "SAY", "|", "actor", "=", "#1", "|",
           "loc", "=", "#2", "|", "raw", "=", "hello">>
L_MOVE == <<"NOESIS", " ", "t", "=", "MOVE", "|", "actor", "=", "#1", "|",
            "from", "=", "#2", "|", "to", "=", "#3">>
L_SAY_NOLOC == <<"NOESIS", ":", " ", "t", "=", "SAY", "|", "actor", "=", "#1">>
L_NO_T == <<"NOESIS", ":", " ", "actor", "=", "#1", "|", "loc", "=", "#2">>
L_EMOTE == <<"NOESIS", ":", " ", "t", "=", "EMOTE", "|", "actor", "=", "#1">>
L_TEXT == <<"Bob", " ", "says", " ", "hi">>

\* A marker line behind a telnet negotiation (IAC WILL ECHO), byte by byte.
L_IAC_SAY == <<"0xFF", "0xFB", "0x01", "NOESIS", ":", " ", "t", "=", "SAY", "|",
               "actor", "=", "#1", "|", "loc", "=", "#2">>

SampleLines == {L_SAY, L_MOVE, L_SAY_NOLOC, L_NO_T, L_EMOTE, L_TEXT}

SampleEvents ==
    { [meta |-> [run_id |-> "test-run", type |-> "SAY"], text |-> t] :
        t \in {<<>>, <<"a">>, <<"a", LF, "b">>} }

\* main before its first statement that matters: seq = 0, buffer = "", no socket.
BInit ==
    /\ mode \in {"dry_run", "record"}
    /\ run_id = 1
    /\ pc = "connect"
    /\ reconnecting = FALSE
    /\ exit_code = None
    /\ exit_cause = ""
    /\ sock = None
    /\ seq = 0
    /\ events_written = 0
    /\ buffer = <<>>
    /\ netOpen = {}
    /\ connCount = 0
    /\ srvRest = <<>>
    /\ rxCount = 0
    /\ linkUp = FALSE
    /\ authed = {}
    /\ elog = <<>>
    /\ droplog = {}
    /\ loginRx = {}
    /\ idle = FALSE
    /\ hbDue = TRUE
    /\ hb_count = 0
    /\ hb = None
    /\ hbDir = [f \in {} |-> <<>>]
    /\ ka_pc = "off"
    /\ ka_log = ""
    /\ ping = None

WInit ==
    /\ today = 1
    /\ files = [p \in {} |-> <<>>]
    /\ durable = [p \in AllPaths |-> 0]
    /\ openHandles = <<>>
    /\ peakOpen = 0
    /\ rotations = 0
    /\ w_current_day = None
    /\ w_fh = None
    /\ w_current_path = None
    /\ written = <<>>
    /\ machine = "up"

\* The UTC clock passes midnight.
Tick ==
    /\ machine = "up"
    /\ today < MaxDay
    /\ today' = today + 1
    /\ UNCHANGED <<wvars, bvars, tvars, idle>>

WWrite ==
    /\ machine = "up"
    /\ Len(written) < MaxWrites
    /\ \E e \in SampleEvents : write_event(e)
    /\ UNCHANGED <<today, durable, machine, bvars, tvars, idle>>

WClose ==
    /\ machine = "up"
    /\ close
    /\ UNCHANGED <<today, files, durable, peakOpen, rotations, written, machine, bvars, tvars, idle>>

(***************************************************************************)
(* elias_mux_bot.py: main, the run driver of the bot.  Durations are exact  *)
(* numbers in units of 10^-7, in which every value the backoff takes can    *)
(* be written.                                                              *)
(***************************************************************************)
Unit == 10^7

\* backoff = 1.0
BackoffInit == 1 * Unit

\* min(..., 30.0)
BackoffCap == 30 * Unit

\* backoff * 1.7
times_1_7(b) == (b \div 10) * 17

Min(a, b) == IF a <= b THEN a ELSE b

\* A driver that keeps the backoff it has when a login succeeds.
BackoffKept == backoff

\* Line 379: "backoff = 1.0" after connect and login_and_settle returned.
BackoffAfterLogin == BackoffInit

DInit ==
    /\ d_pc = "new"
    /\ backoff = BackoffInit
    /\ d_k = 0
    /\ d_total = 0
    /\ d_waited = 0

\* What EliasMuxBot.close leaves open of a bot that kept its socket.
bot_close_leaks(sk, net) == net

\* Lines 187-193, EliasMuxBot.close: "if self.sock: self.sock.close()".
bot_close(sk, net) == IF sk # None THEN net \ {sk[1]} ELSE net

\* The lines the bot may read, as what PAGE_PATTERNS, SAY_PATTERNS and CALL_ELIAS
\* make of them: page is None or the paged message; say is None or what was said,
\* whether it calls Elias, and what follows the call.
BL_PAGE == [page |-> Some("what night is it?"), say |-> None]
BL_HEALTH == [page |-> Some("@@healthcheck"), say |-> None]
BL_SAY_ELIAS ==
    [page |-> None,
     say |-> Some([msg |-> "Elias, what night is it?", call |-> TRUE,
                   rest |-> "what night is it?"])]
BL_SAY_ELIAS_ONLY ==
    [page |-> None, say |-> Some([msg |-> "Elias", call |-> TRUE, rest |-> ""])]
BL_SAY_OTHER ==
    [page |-> None, say |-> Some([msg |-> "nice weather", call |-> FALSE, rest |-> ""])]
BL_TEXT == [page |-> None, say |-> None]

BotLines == {BL_PAGE, BL_HEALTH, BL_SAY_ELIAS, BL_SAY_ELIAS_ONLY, BL_SAY_OTHER, BL_TEXT}

\* Lines 339-362, what follows handle_and_reply in the branch of a say: the page
\* replies sent for what was said.
after_say_reply(msg) ==
    IF msg = "" THEN <<>>
    ELSE IF msg = "@@healthcheck" THEN <<"page @@ok">>
    ELSE <<"page answer">>

\* Lines 306-362, the body of "for line in self.read_lines()" for one line: the
\* page replies it sends, in order.
loop_replies(line) ==
    IF line.page # None
    THEN IF line.page[1] = "@@healthcheck" THEN <<"page @@ok">>
         ELSE <<"page answer">>
    ELSE IF line.say = None THEN <<>>
    ELSE IF ~line.say[1].call THEN <<>>
    ELSE IF line.say[1].rest = "" THEN <<>>
    ELSE <<"page answer">> \o after_say_reply(line.say[1].msg)

\* The bot before main's loop: no EliasMuxBot yet.
SInit ==
    /\ b_sock = None
    /\ b_open = {}
    /\ b_peer = "none"
    /\ b_eof = FALSE
    /\ b_last = None

\* Line 375: bot = EliasMuxBot(), outside the try: an exception (build_client) ends
\* main.  The new bot has no socket.
DNew ==
    /\ d_pc = "new"
    /\ d_pc' \in {"connect", "dead"}
    /\ b_sock' = None
    /\ b_eof' = FALSE
    /\ UNCHANGED <<b_open, b_peer, b_last>>
    /\ UNCHANGED <<today, wvars, bvars, hvars, kvars, feed, xvars, idle,
                   backoff, d_k, d_total, d_waited>>

\* Line 377: bot.connect() returns with self.sock set or raises.
DConnect ==
    /\ d_pc = "connect"
    /\ \/ /\ d_pc' = "login"
          /\ b_sock' = Some(d_total + 1)
          /\ b_open' = b_open \cup {d_total + 1}
          /\ b_peer' = "open"
       \/ /\ d_pc' = "failed"
          /\ UNCHANGED <<b_sock, b_open, b_peer>>
    /\ UNCHANGED <<b_eof, b_last>>
    /\ UNCHANGED <<today, wvars, bvars, hvars, kvars, feed, xvars, idle,
                   backoff, d_k, d_total, d_waited>>

\* Lines 378-379: bot.login_and_settle() raises, or returns and the backoff is reset.
DLogin ==
    /\ d_pc = "login"
    /\ \/ /\ d_pc' = "loop"
          /\ backoff' = BackoffAfterLogin
          /\ d_k' = 0
       \/ /\ d_pc' = "failed"
          /\ UNCHANGED <<backoff, d_k>>
    /\ UNCHANGED svars
    /\ UNCHANGED <<today, wvars, bvars, hvars, kvars, feed, xvars, idle, d_total, d_waited>>

\* The far end closes the connection of the bot.
DPeerClose ==
    /\ d_pc \in {"login", "loop"}
    /\ b_peer = "open"
    /\ b_peer' = "closed"
    /\ UNCHANGED <<b_sock, b_open, b_eof, b_last>>
    /\ UNCHANGED <<today, wvars, bvars, hvars, kvars, feed, xvars, idle, dvars>>

\* Lines 300-364, one turn of bot.loop()'s "while True": the keepalive, read_lines
\* (recv_bytes, lines 218-227) and the replies to the line read.  recv returns b""
\* on a connection the far end closed, and recv_bytes returns it as it does after a
\* timeout; sendall or recv may raise, which ends loop().
DLoop ==
    /\ d_pc = "loop"
    /\ \/ /\ d_pc' = "failed"
          /\ UNCHANGED <<b_eof, b_last>>
       \/ /\ b_peer = "closed"
          /\ b_eof' = TRUE
          /\ UNCHANGED <<d_pc, b_last>>
       \/ /\ b_peer = "open"
          /\ \E line \in BotLines :
               \/ /\ b_last' = Some([line |-> line, replies |-> loop_replies(line),
                                     done |-> TRUE])
                  /\ UNCHANGED d_pc
               \/ /\ \E k \in 0..(Len(loop_replies(line)) - 1) :
                       b_last' = Some([line |-> line,
                                       replies |-> SubSeq(loop_replies(line), 1, k),
                                       done |-> FALSE])
                  /\ d_pc' = "failed"
          /\ UNCHANGED b_eof
    /\ UNCHANGED <<b_sock, b_open, b_peer>>
    /\ UNCHANGED <<today, wvars, bvars, hvars, kvars, feed, xvars, idle,
                   backoff, d_k, d_total, d_waited>>

\* Lines 381-385: the exception is logged, the bot closed, main sleeps for backoff
\* and multiplies it.
DExcept ==
    /\ d_pc = "failed"
    /\ d_total < MaxFail
    /\ b_open' = bot_close(b_sock, b_open)
    /\ b_sock' = None
    /\ b_peer' = "none"
    /\ d_waited' = backoff
    /\ backoff' = Min(times_1_7(backoff), BackoffCap)
    /\ d_k' = d_k + 1
    /\ d_total' = d_total + 1
    /\ d_pc' = "new"
    /\ UNCHANGED <<b_eof, b_last>>
    /\ UNCHANGED <<today, wvars, bvars, hvars, kvars, feed, xvars, idle>>

(***************************************************************************)
(* elias_mux_bot.py: the stream decoder, smart_decode over                 *)
(* strip_telnet_iac.  Bytes are numbers 0..255, a string is the sequence   *)
(* of its code points.  The cursor i counts from 0 as in the source:       *)
(* data[k] there is t_data[k + 1] here.                                    *)
(***************************************************************************)
MaxBytes == 6

\* Line 17.
IAC == 255

\* Line 50: subnegotiation begin; line 53: subnegotiation end.
SB == 250
SE == 240

\* Line 60: WILL, WONT, DO, DONT.
Negotiation == {251, 252, 253, 254}

\* The byte values inputs are made of: a letter, SE, SB, WILL and the escape.
Bytes == {65, SE, SB, 251, IAC}

ByteSeqs == UNION { [1..n -> Bytes] : n \in 0..MaxBytes }

\* A scan that reads data[i + 1] without looking whether it is there.
LoneEscapeMissed(i, n) == FALSE

\* Line 39: "if i + 1 >= n: break".
LoneEscape(i, n) == i + 1 >= n

\* A scan that forgets the option byte of a negotiation.
neg_skip_short(i) == i + 2

\* Line 61: "i += 3  # skip cmd + opt".
neg_skip(i) == i + 3

\* A scan that leaves the block on the escape of its terminator.
sb_leave_short(i) == i + 1

\* Line 54: "i += 2" past IAC SE.
sb_leave(i) == i + 2

\* cleaned.decode("utf-8", errors="replace"): a byte below 128 is its character.
\* No byte of Bytes is a continuation byte (128..191), so every other byte is an
\* invalid sequence of its own and becomes U+FFFD.
utf8_replace(bs) == [k \in 1..Len(bs) |-> IF bs[k] < 128 THEN bs[k] ELSE 65533]

\* cleaned.decode("latin-1", errors="replace"): every byte is its code point.
latin_1(bs) == [k \in 1..Len(bs) |-> bs[k]]

\* s_utf8.count of U+FFFD
count_replaced(txt) == Cardinality({k \in 1..Len(txt) : txt[k] = 65533})

\* Lines 79-84: replacement_ratio > 0.02, as count / max(1, len) > 2 / 100.
decode_cleaned(cleaned) ==
    IF count_replaced(utf8_replace(cleaned)) * 100 > 2 * Max(1, Len(cleaned))
    THEN latin_1(cleaned)
    ELSE utf8_replace(cleaned)

\* The decoder is not in use.
XOff ==
    /\ t_data = <<>>
    /\ t_i = 0
    /\ t_out = <<>>
    /\ t_pc = "off"
    /\ t_sb = None
    /\ t_text = None

\* smart_decode(data) is called.
XInit ==
    /\ t_data \in ByteSeqs
    /\ t_i = 0
    /\ t_out = <<>>
    /\ t_pc = "call"
    /\ t_sb = None
    /\ t_text = None

\* Lines 74-76 and 27-29: "if not data: return ''", else strip_telnet_iac begins.
DecodeCall ==
    /\ t_pc = "call"
    /\ IF t_data = <<>>
       THEN t_text' = Some(<<>>) /\ t_pc' = "returned"
       ELSE t_text' = t_text /\ t_pc' = "scan"
    /\ UNCHANGED <<t_data, t_i, t_out, t_sb>>
    /\ UNCHANGED <<today, wvars, bvars, hvars, kvars, feed, dvars, svars, idle>>

\* Lines 31-65: one turn of "while i < n".  data[i + 1] read past the end raises
\* IndexError.
StripScan ==
    /\ t_pc = "scan"
    /\ IF t_i >= Len(t_data)
       THEN t_pc' = "stripped" /\ UNCHANGED <<t_i, t_out, t_sb>>
       ELSE IF t_data[t_i + 1] # IAC
       THEN /\ t_out' = Append(t_out, t_data[t_i + 1])
            /\ t_i' = t_i + 1
            /\ UNCHANGED <<t_pc, t_sb>>
       ELSE IF LoneEscape(t_i, Len(t_data))
       THEN t_pc' = "stripped" /\ UNCHANGED <<t_i, t_out, t_sb>>
       ELSE IF t_i + 1 >= Len(t_data)
       THEN t_pc' = "raised" /\ UNCHANGED <<t_i, t_out, t_sb>>
       ELSE IF t_data[t_i + 2] = IAC
       THEN /\ t_out' = Append(t_out, IAC)
            /\ t_i' = t_i + 2
            /\ UNCHANGED <<t_pc, t_sb>>
       ELSE IF t_data[t_i + 2] = SB
       THEN /\ t_i' = t_i + 2
            /\ t_pc' = "sb"
            /\ t_sb' = Some(t_i)
            /\ UNCHANGED t_out
       ELSE IF t_data[t_i + 2] \in Negotiation
       THEN /\ t_i' = neg_skip(t_i)
            /\ UNCHANGED <<t_pc, t_out, t_sb>>
       ELSE /\ t_i' = t_i + 2
            /\ UNCHANGED <<t_pc, t_out, t_sb>>
    /\ UNCHANGED <<t_data, t_text>>
    /\ UNCHANGED <<today, wvars, bvars, hvars, kvars, feed, dvars, svars, idle>>

\* Lines 52-57: one turn of the inner "while i < n", then "continue".
StripSb ==
    /\ t_pc = "sb"
    /\ IF t_i >= Len(t_data)
       THEN t_pc' = "scan" /\ t_sb' = None /\ UNCHANGED t_i
       ELSE IF /\ t_data[t_i + 1] = IAC
               /\ t_i + 1 < Len(t_data)
               /\ t_data[t_i + 2] = SE
       THEN t_i' = sb_leave(t_i) /\ t_pc' = "scan" /\ t_sb' = None
       ELSE t_i' = t_i + 1 /\ UNCHANGED <<t_pc, t_sb>>
    /\ UNCHANGED <<t_data, t_out, t_text>>
    /\ UNCHANGED <<today, wvars, bvars, hvars, kvars, feed, dvars, svars, idle>>

\* Lines 67 and 79-84: strip_telnet_iac returns bytes(out), smart_decode decodes it.
DecodeCleaned ==
    /\ t_pc = "stripped"
    /\ t_text' = Some(decode_cleaned(t_out))
    /\ t_pc' = "returned"
    /\ UNCHANGED <<t_data, t_i, t_out, t_sb>>
    /\ UNCHANGED <<today, wvars, bvars, hvars, kvars, feed, dvars, svars, idle>>

\* The state after construction: the writer's and main's.
Init == WInit /\ BInit /\ DInit /\ SInit /\ XOff /\ feed = SampleLines

WNext == Tick \/ WWrite \/ WClose

WriterSpec == Init /\ [][WNext]_vars

(***************************************************************************)
(* The writer with the failures of what runs it: fh.flush() hands the text *)
(* to the operating system, which writes it to the storage device later,   *)
(* on its own schedule (write_event calls no os.fsync).  A crash of the    *)
(* process loses what the process holds; a crash of the machine loses what *)
(* the device does not hold yet.                                           *)
(***************************************************************************)
\* The operating system writes some more of a file's text to the device.
Writeback ==
    /\ machine # "machine_crashed"
    /\ \E p \in DOMAIN files :
         \E n \in (durable[p] + 1)..Len(files[p]) :
            durable' = [durable EXCEPT ![p] = n]
    /\ UNCHANGED <<today, files, openHandles, peakOpen, rotations, w_current_day,
                   w_fh, w_current_path, written, machine, bvars, tvars, idle>>

\* The process dies: its handles are closed by the operating system, the text it
\* handed over stays.
ProcCrash ==
    /\ machine = "up"
    /\ machine' = "proc_crashed"
    /\ openHandles' = <<>>
    /\ w_fh' = None
    /\ w_current_day' = None
    /\ w_current_path' = None
    /\ UNCHANGED <<today, files, durable, peakOpen, rotations, written, bvars, tvars, idle>>

\* The machine dies (power loss): each file is left with what the device holds.
MachineCrash ==
    /\ machine # "machine_crashed"
    /\ machine' = "machine_crashed"
    /\ files' = [p \in {q \in DOMAIN files : durable[q] > 0} |->
                    SubSeq(files[p], 1, durable[p])]
    /\ openHandles' = <<>>
    /\ w_fh' = None
    /\ w_current_day' = None
    /\ w_current_path' = None
    /\ UNCHANGED <<today, durable, peakOpen, rotations, written, bvars, tvars, idle>>

CrashNext == WNext \/ Writeback \/ ProcCrash \/ MachineCrash

CrashSpec == Init /\ [][CrashNext]_vars

(***************************************************************************)
(* bridge.py: text.  A text is a sequence of tokens; a token is a string   *)
(* standing for a run of characters ("NOESIS", "actor", "#1") or for one   *)
(* character (":", "|", "=", " ", the line ends).                          *)
(***************************************************************************)
CR == "\r"
WS == {" ", "\t"}

RECURSIVE lstrip(_)
lstrip(s) == IF s # <<>> /\ s[1] \in WS THEN lstrip(Tail(s)) ELSE s

RECURSIVE rstrip(_)
rstrip(s) ==
    IF s # <<>> /\ s[Len(s)] \in WS THEN rstrip(SubSeq(s, 1, Len(s) - 1)) ELSE s

\* str.strip()
strip(s) == rstrip(lstrip(s))

\* The first index of token x in s, 0 when it does not occur.
IndexOf(s, x) ==
    IF \A i \in 1..Len(s) : s[i] # x THEN 0
    ELSE CHOOSE i \in 1..Len(s) : s[i] = x /\ \A j \in 1..(i - 1) : s[j] # x

\* str.split(sep)
RECURSIVE split(_, _)
split(s, sep) ==
    LET k == IndexOf(s, sep)
    IN IF k = 0 THEN <<s>>
       ELSE <<SubSeq(s, 1, k - 1)>> \o split(SubSeq(s, k + 1, Len(s)), sep)

\* recv_some, line 161: data.decode("utf-8", errors="replace").  The bytes 0xFF
\* and 0xFB begin no UTF-8 sequence and become U+FFFD; ASCII is kept, control
\* characters included.
HighBytes == {"0xFF", "0xFB"}
decode_utf8(toks) ==
    [i \in 1..Len(toks) |->
        [toks[i] EXCEPT !.s = IF @ \in HighBytes THEN "U+FFFD" ELSE @]]

\* chunk.replace("\r", "\n"), on a text and on received tokens
replace_cr(s) == [i \in 1..Len(s) |-> IF s[i] = CR THEN LF ELSE s[i]]
ReplaceCr(toks) == [i \in 1..Len(toks) |-> [toks[i] EXCEPT !.s = replace_cr(<<@>>)[1]]]

(***************************************************************************)
(* bridge.py: parse_noesis_kv                                              *)
(***************************************************************************)
\* NOESIS_PREFIX_RE.match(line): ^\s*NOESIS:?\s*(.*)$ ; group(1) when it matches.
prefix_match(line) ==
    LET a == lstrip(line)
    IN IF a = <<>> \/ a[1] # "NOESIS" THEN [matched |-> FALSE, payload |-> <<>>]
       ELSE LET b == Tail(a)
                c == IF b # <<>> /\ b[1] = ":" THEN Tail(b) ELSE b
            IN [matched |-> TRUE, payload |-> lstrip(c)]

\* kv[k] = v
kv_put(kv, k, v) == [x \in (DOMAIN kv) \cup {k} |-> IF x = k THEN v ELSE kv[x]]

\* A loop that gives up at the first part without "=".
RECURSIVE kv_stop_at_malformed(_, _)
kv_stop_at_malformed(parts, kv) ==
    IF parts = <<>> THEN kv
    ELSE LET p == Head(parts)
             i == IndexOf(p, "=")
         IN IF p = <<>> THEN kv_stop_at_malformed(Tail(parts), kv)
            ELSE IF i = 0 THEN kv
            ELSE kv_stop_at_malformed(Tail(parts),
                                      kv_put(kv, strip(SubSeq(p, 1, i - 1)),
                                                 strip(SubSeq(p, i + 1, Len(p)))))

\* The loop over the parts: a part without "=" is skipped, the others are split at
\* their first "=", key and value stripped.
RECURSIVE kv_of_parts(_, _)
kv_of_parts(parts, kv) ==
    IF parts = <<>> THEN kv
    ELSE LET p == Head(parts)
             i == IndexOf(p, "=")
         IN IF p = <<>> \/ i = 0 THEN kv_of_parts(Tail(parts), kv)
            ELSE kv_of_parts(Tail(parts),
                             kv_put(kv, strip(SubSeq(p, 1, i - 1)),
                                        strip(SubSeq(p, i + 1, Len(p)))))

\* parse_noesis_kv(line): the mapping, keys and values being texts; None (the
\* empty mapping) when the line does not qualify or yields no pair.
parse_noesis_kv(line) ==
    LET m == prefix_match(line)
        payload == strip(m.payload)
    IN IF ~m.matched \/ payload = <<>> THEN None
       ELSE kv_of_parts(split(payload, "|"), None)

\* kv.get(k): the value, or a falsy one when the key is absent (the callers test
\* only its truth, or replace None by "").
kv_get(kv, k) == IF <<k>> \in DOMAIN kv THEN kv[<<k>>] ELSE <<>>

(***************************************************************************)
(* bridge.py: main, the event built from a validated line                  *)
(***************************************************************************)
\* A validation that wants the optional key raw of a SAY as well.
line_kind_needs_raw(kv) ==
    LET t == kv_get(kv, "t")
    IN IF kv = None \/ t = <<>> THEN "none"
       ELSE IF t = <<"SAY">>
            THEN (IF kv_get(kv, "actor") = <<>> \/ kv_get(kv, "loc") = <<>>
                     \/ kv_get(kv, "raw") = <<>>
                  THEN "drop" ELSE "SAY")
       ELSE IF t = <<"MOVE">>
            THEN (IF kv_get(kv, "actor") = <<>> \/ kv_get(kv, "from") = <<>>
                     \/ kv_get(kv, "to") = <<>>
                  THEN "drop" ELSE "MOVE")
       ELSE "other"

\* The kind of a line's mapping: what main does with it.
\*   "none"  no mapping or no t       "drop"  SAY or MOVE without a mandatory key
\*   "SAY", "MOVE"  an event          "other" a kind main has no branch for
line_kind(kv) ==
    LET t == kv_get(kv, "t")
    IN IF kv = None \/ t = <<>> THEN "none"
       ELSE IF t = <<"SAY">>
            THEN (IF kv_get(kv, "actor") = <<>> \/ kv_get(kv, "loc") = <<>>
                  THEN "drop" ELSE "SAY")
       ELSE IF t = <<"MOVE">>
            THEN (IF kv_get(kv, "actor") = <<>> \/ kv_get(kv, "from") = <<>>
                     \/ kv_get(kv, "to") = <<>>
                  THEN "drop" ELSE "MOVE")
       ELSE "other"

\* The event dictionary of a SAY or MOVE mapping, numbered n.
make_event(kv, n) ==
    IF kv_get(kv, "t") = <<"SAY">>
    THEN [meta |-> [run_id |-> run_id, seq |-> n, type |-> "SAY",
                    actor |-> kv_get(kv, "actor"),
                    location |-> kv_get(kv, "loc"),
                    verb |-> kv_get(kv, "verb")],
          text |-> kv_get(kv, "raw")]
    ELSE [meta |-> [run_id |-> run_id, seq |-> n, type |-> "MOVE",
                    actor |-> kv_get(kv, "actor"),
                    location |-> kv_get(kv, "to"),
                    from |-> kv_get(kv, "from"),
                    to |-> kv_get(kv, "to")],
          text |-> kv_get(kv, "raw")]

(***************************************************************************)
(* The far end.  A received token carries, beside its text s, the number   *)
(* of the line it belongs to and the connection it arrived on.             *)
(***************************************************************************)
\* Where a chunk boundary may cut a line.
SplitAt == 7

Text(toks) == [i \in 1..Len(toks) |-> toks[i].s]
Tag(txt, id, conn) ==
    [i \in 1..Len(txt) |-> [s |-> txt[i], id |-> id, conn |-> conn, rx |-> "wire"]]

\* The tokens as received by `by`: "login" (a window of login) or "loop" (main).
ReceivedBy(toks, by) == [i \in 1..Len(toks) |-> [toks[i] EXCEPT !.rx = by]]

\* The lines these tokens belong to.
LineIds(toks) == {toks[i].id : i \in 1..Len(toks)}

\* What the server may deliver next on connection conn: [chunk, rest, began], the
\* tokens delivered, what is left of the line being sent, and whether a new line
\* was begun.  It finishes the line it is sending before it begins another.
ServerChunks(conn) ==
    LET NewLines ==
            IF rxCount < MaxRx
            THEN {Tag(l \o <<LF>>, rxCount + 1, conn) : l \in feed}
            ELSE {}
    IN IF srvRest # <<>>
       THEN {[chunk |-> srvRest, rest |-> <<>>, began |-> 0]}
            \cup {[chunk |-> srvRest \o l, rest |-> <<>>, began |-> 1] : l \in NewLines}
       ELSE {[chunk |-> l, rest |-> <<>>, began |-> 1] : l \in NewLines}
            \cup {[chunk |-> SubSeq(l, 1, SplitAt),
                   rest |-> SubSeq(l, SplitAt + 1, Len(l)), began |-> 1] :
                     l \in {x \in NewLines : Len(x) > SplitAt + 1}}

(***************************************************************************)
(* bridge.py: MuxClient                                                    *)
(***************************************************************************)
\* The open sockets after MuxClient.close(): "if self.sock: self.sock.close()".
SocketsAfterClose(sk, net) == IF sk # None THEN net \ {sk[1]} ELSE net

\* main returns: "except Exception: return 1" or "except KeyboardInterrupt", and
\* "finally: mux.close()".  cause tells which exception it was.
Exit(code, cause) ==
    /\ pc' = "exited"
    /\ exit_code' = Some(code)
    /\ exit_cause' = cause
    /\ netOpen' = SocketsAfterClose(sock, netOpen)
    /\ sock' = None

\* A recv_some that reports the error and keeps the socket.
SockKeptOnRecvError(sk) == sk

\* What recv_some leaves in mux.sock when recv fails or returns b"": it calls
\* self.close().
SockAfterRecvError(sk) == None

\* recv_some on a connection that is down: "[mux] recv error" is logged, the socket
\* closed, "" returned.
RecvError ==
    /\ sock' = SockAfterRecvError(sock)
    /\ netOpen' = IF SockAfterRecvError(sock) = None
                  THEN SocketsAfterClose(sock, netOpen) ELSE netOpen

\* MuxClient.connect, at main's first connect (line 312) or inside reconnect()
\* (line 306).  create_connection raises when the server cannot be reached; the
\* exception ends main.
Connect ==
    /\ pc = "connect"
    /\ \/ /\ connCount < MaxConn
          /\ sock' = Some(connCount + 1)
          /\ netOpen' = netOpen \cup {connCount + 1}
          /\ connCount' = connCount + 1
          /\ srvRest' = <<>>
          /\ linkUp' = TRUE
          /\ pc' = "banner"
          /\ UNCHANGED <<exit_code, exit_cause>>
       \/ /\ Exit(1, "connect_failed")
          /\ UNCHANGED <<connCount, srvRest, linkUp>>
    /\ UNCHANGED <<today, wvars, mode, run_id, reconnecting, seq, events_written,
                   buffer, rxCount, authed, elog, droplog, loginRx>>
    /\ UNCHANGED <<tvars, idle>>

\* Where login's caller continues: reconnect() clears the buffer, main announces READY.
AfterLogin == IF reconnecting THEN "rdone" ELSE "ready0"

\* A login whose windows append what they receive to main's buffer.
WindowLeaks(chunk) == chunk

\* What main's buffer gets of a chunk received inside login: nothing, login keeps
\* it in its own banner / resp / who_resp.
WindowKeeps(chunk) == <<>>

\* One of login's receive windows (banner, response, WHO): recv_some is called until
\* the window's time is over.  With no socket it returns ""; on a connection that is
\* down it closes the socket; otherwise nothing or a chunk arrives.
RecvWindow(next) ==
    /\ \/ /\ sock = None
          /\ UNCHANGED <<sock, netOpen, srvRest, rxCount, buffer, loginRx, idle>>
       \/ /\ sock # None /\ ~linkUp
          /\ RecvError
          /\ UNCHANGED <<srvRest, rxCount, buffer, loginRx, idle>>
       \/ /\ sock # None /\ linkUp
          /\ UNCHANGED <<sock, netOpen, srvRest, rxCount, buffer, loginRx, idle>>
       \/ /\ sock # None /\ linkUp
          /\ \E c \in ServerChunks(sock[1]) :
               /\ srvRest' = c.rest
               /\ rxCount' = rxCount + c.began
               /\ buffer' = buffer \o WindowKeeps(ReceivedBy(c.chunk, "login"))
               /\ loginRx' = loginRx \cup LineIds(c.chunk)
               /\ idle' = FALSE
          /\ UNCHANGED <<sock, netOpen>>
    /\ pc' = next

LoginBanner ==
    /\ pc = "banner"
    /\ RecvWindow("auth")
    /\ UNCHANGED <<today, wvars, mode, run_id, reconnecting, exit_code, exit_cause,
                   seq, events_written, connCount, linkUp, authed, elog, droplog>>
    /\ UNCHANGED tvars

\* MuxClient.send_line: raises "Not connected" without a socket; sendall may raise
\* on a connection that is down.  The causes with which the call may raise.
SendRaises ==
    IF sock = None THEN {"not_connected"}
    ELSE IF ~linkUp THEN {"send_failed"} ELSE {}

\* Whether send_line may return normally.
SendReturns == sock # None

\* login: self.send_line(f"connect {username} {password}").  send_line raises when
\* there is no socket, sendall when the connection is broken.
LoginAuth ==
    /\ pc = "auth"
    /\ \/ /\ SendReturns
          /\ authed' = authed \cup {sock[1]}
          /\ pc' = "resp"
          /\ UNCHANGED <<exit_code, exit_cause, sock, netOpen>>
       \/ /\ \E cause \in SendRaises : Exit(1, cause)
          /\ UNCHANGED authed
    /\ UNCHANGED <<today, wvars, mode, run_id, reconnecting, seq, events_written,
                   buffer, connCount, srvRest, rxCount, linkUp, elog, droplog, loginRx>>
    /\ UNCHANGED <<tvars, idle>>

\* login: the response window, then the test for the rejection phrase, which the
\* server can only have sent on a live connection.
LoginResp ==
    /\ pc = "resp"
    /\ \/ /\ RecvWindow("who")
          /\ UNCHANGED <<exit_code, exit_cause>>
       \/ /\ sock # None /\ linkUp
          /\ Exit(1, "login_rejected")
          /\ idle' = FALSE
          /\ UNCHANGED <<srvRest, rxCount, buffer, loginRx>>
    /\ UNCHANGED <<today, wvars, mode, run_id, reconnecting, seq, events_written,
                   connCount, linkUp, authed, elog, droplog>>
    /\ UNCHANGED tvars

\* login: self.send_line("who")
LoginWho ==
    /\ pc = "who"
    /\ \/ /\ SendReturns
          /\ pc' = "whoresp"
          /\ UNCHANGED <<exit_code, exit_cause, sock, netOpen>>
       \/ \E cause \in SendRaises : Exit(1, cause)
    /\ UNCHANGED <<today, wvars, mode, run_id, reconnecting, seq, events_written,
                   buffer, connCount, srvRest, rxCount, linkUp, authed, elog,
                   droplog, loginRx>>
    /\ UNCHANGED <<tvars, idle>>

LoginWhoResp ==
    /\ pc = "whoresp"
    /\ RecvWindow(AfterLogin)
    /\ UNCHANGED <<today, wvars, mode, run_id, reconnecting, exit_code, exit_cause,
                   seq, events_written, connCount, linkUp, authed, elog, droplog>>
    /\ UNCHANGED tvars

(***************************************************************************)
(* bridge.py: main                                                         *)
(***************************************************************************)
\* Lines 314-321: READY is logged, the keepalive thread started.
Ready0 ==
    /\ pc = "ready0"
    /\ pc' = "loop"
    /\ UNCHANGED <<today, wvars, mode, run_id, reconnecting, exit_code, exit_cause,
                   sock, seq, events_written, buffer, netOpen, connCount, srvRest,
                   rxCount, linkUp, authed, elog, droplog, loginRx>>
    /\ ka_pc' = "sleep"
    /\ UNCHANGED <<hvars, ka_log, ping, feed, evars, dvars, idle>>

\* Line 324: "if not mux.sock: reconnect()".
LoopTop ==
    /\ pc = "loop"
    /\ pc' = IF sock = None THEN "rclose" ELSE "recv"
    /\ UNCHANGED <<today, wvars, mode, run_id, reconnecting, exit_code, exit_cause,
                   sock, seq, events_written, buffer, netOpen, connCount, srvRest,
                   rxCount, linkUp, authed, elog, droplog, loginRx>>
    /\ UNCHANGED <<tvars, idle>>

\* reconnect(): mux.close(), the sleep; mux.connect() and mux.login() follow.
ReconnectClose ==
    /\ pc = "rclose"
    /\ netOpen' = SocketsAfterClose(sock, netOpen)
    /\ sock' = None
    /\ reconnecting' = TRUE
    /\ pc' = "connect"
    /\ UNCHANGED <<today, wvars, mode, run_id, exit_code, exit_cause, seq,
                   events_written, buffer, connCount, srvRest, rxCount, linkUp,
                   authed, elog, droplog, loginRx>>
    /\ UNCHANGED <<tvars, idle>>

\* A reconnect() that leaves main's buffer as it is.
BufferKeptOnReconnect == buffer

\* The buffer as reconnect() leaves it, once login has returned: buffer = "".
BufferAfterReconnect == <<>>

\* A reconnect() that starts the numbering again.
SeqResetOnReconnect == IF reconnecting THEN 0 ELSE seq

\* seq as reconnect() leaves it: untouched (only buffer is declared nonlocal).
SeqAfterReconnect == seq

\* reconnect(), after login returned.
ReconnectDone ==
    /\ pc = "rdone"
    /\ buffer' = BufferAfterReconnect
    /\ seq' = SeqAfterReconnect
    /\ pc' = "recv"
    /\ UNCHANGED <<today, wvars, mode, run_id, reconnecting, exit_code, exit_cause,
                   sock, events_written, netOpen, connCount, srvRest, rxCount,
                   linkUp, authed, elog, droplog, loginRx>>
    /\ UNCHANGED <<tvars, idle>>

\* Lines 327-330: chunk = mux.recv_some(); a chunk is appended to the buffer with
\* its carriage returns made line feeds.  No socket, a timeout or an error give "".
Recv ==
    /\ pc = "recv"
    /\ \/ /\ sock = None \/ linkUp
          /\ pc' = "hb"
          /\ UNCHANGED <<sock, netOpen, srvRest, rxCount, buffer, idle>>
       \/ /\ sock # None /\ ~linkUp
          /\ RecvError
          /\ pc' = "hb"
          /\ UNCHANGED <<srvRest, rxCount, buffer, idle>>
       \/ /\ sock # None /\ linkUp
          /\ \E c \in ServerChunks(sock[1]) :
               /\ srvRest' = c.rest
               /\ rxCount' = rxCount + c.began
               /\ buffer' = buffer \o ReplaceCr(decode_utf8(ReceivedBy(c.chunk, "loop")))
               /\ idle' = FALSE
          /\ pc' = "lines"
          /\ UNCHANGED <<sock, netOpen>>
    /\ UNCHANGED <<today, wvars, mode, run_id, reconnecting, exit_code, exit_cause,
                   seq, events_written, connCount, linkUp, authed, elog, droplog, loginRx>>
    /\ UNCHANGED tvars

\* The first line of the buffer: the tokens before its first line feed, stripped.
FirstLine == 
    LET k == IndexOf(Text(buffer), LF)
        raw == SubSeq(buffer, 1, k - 1)
        lead == Len(raw) - Len(lstrip(Text(raw)))
    IN SubSeq(raw, lead + 1, lead + Len(strip(Text(raw))))

BufferRest == SubSeq(buffer, IndexOf(Text(buffer), LF) + 1, Len(buffer))

\* A loop that does not count the event it wrote.
WrittenNotCounted == events_written

\* Lines 376 and 403: "events_written += 1" after write_event returned.
WrittenAfterEvent == events_written + 1

\* An event numbered before the increment.
EventSeqStale == seq

\* The number an event carries: "seq += 1" comes before the event is built.
EventSeq == seq + 1

\* A loop that increments seq as soon as the line has a kind, before validation.
SeqAfterLineEager(kind) == seq + 1

\* seq after a line of the given kind: it is incremented after the mandatory keys
\* were found, so only for a line that becomes an event.
SeqAfterLine(kind) == IF kind \in {"SAY", "MOVE"} THEN seq + 1 ELSE seq

\* Lines 331-406, one turn of "while "\n" in buffer": the line is split off, stripped,
\* parsed and validated; a SAY or MOVE with its mandatory keys gets the next seq and
\* is written, one without them is reported in the technical log.  A write that
\* raises ends main.
Lines ==
    /\ pc = "lines"
    /\ IF IndexOf(Text(buffer), LF) = 0
       THEN /\ pc' = "hb"
            /\ UNCHANGED <<wvars, exit_code, exit_cause, sock, netOpen, seq,
                           events_written, buffer, elog, droplog, loginRx>>
       ELSE LET line == FirstLine
                kv == parse_noesis_kv(Text(line))
                kind == line_kind(kv)
            IN /\ buffer' = BufferRest
               /\ IF line = <<>> \/ mode # "record"
                  THEN /\ pc' = "lines"
                       /\ UNCHANGED <<wvars, exit_code, exit_cause, sock, netOpen,
                                      seq, events_written, elog, droplog, loginRx>>
                  ELSE /\ seq' = SeqAfterLine(kind)
                       /\ droplog' = IF kind = "drop" THEN droplog \cup LineIds(line)
                                                      ELSE droplog
                       /\ IF kind \notin {"SAY", "MOVE"}
                          THEN /\ pc' = "lines"
                               /\ UNCHANGED <<wvars, exit_code, exit_cause, sock,
                                              netOpen, events_written, elog>>
                          ELSE \/ /\ write_event(make_event(kv, EventSeq))
                                  /\ events_written' = WrittenAfterEvent
                                  /\ elog' = Append(elog,
                                        [seq |-> EventSeq, run_id |-> run_id,
                                         type |-> kind, ids |-> LineIds(line),
                                         conns |-> {line[i].conn : i \in 1..Len(line)},
                                         rx |-> {line[i].rx : i \in 1..Len(line)},
                                         conn |-> IF sock = None THEN 0 ELSE sock[1],
                                         day |-> utc_day])
                                  /\ pc' = "lines"
                                  /\ UNCHANGED <<durable, machine, exit_code,
                                                 exit_cause, sock, netOpen>>
                               \/ /\ Exit(1, "write_failed")
                                  /\ UNCHANGED <<wvars, events_written, elog>>
    /\ UNCHANGED <<today, mode, run_id, reconnecting, connCount, srvRest, rxCount,
                   linkUp, authed, loginRx>>
    /\ UNCHANGED <<tvars, idle>>

\* hb_path = cfg.out_dir / "bridge.heartbeat.json", as stem and suffix.
hb_path == [stem |-> "bridge.heartbeat", suffix |-> <<".json">>]

\* A write_json_atomic that writes the payload straight into the file.
tmp_in_place(path) == path

\* write_json_atomic: tmp = path.with_suffix(path.suffix + ".tmp")
tmp_of(path) == [path EXCEPT !.suffix = @ \o <<".tmp">>]

\* Lines 412-420: the snapshot.  ts differs from one emission to the next.
hb_snapshot ==
    [ts |-> hb_count + 1, mux_connected |-> sock # None,
     events_written |-> events_written, run_id |-> run_id]

\* json.dump(payload, f): the tokens written for a snapshot.
hb_dumps(h) ==
    <<"{", <<"ts", h.ts>>, <<"mux_connected", h.mux_connected>>,
      <<"events_written", h.events_written>>, <<"run_id", h.run_id>>, "}">>

\* os.replace(src, dst) on the files of the heartbeat.
os_replace(dir, src, dst) ==
    IF src = dst THEN dir
    ELSE [f \in (DOMAIN dir \ {src}) \cup {dst} |->
            IF f = dst THEN dir[src] ELSE dir[f]]

\* open(f, "w"): the file exists and is empty.
open_w(dir, f) == [g \in DOMAIN dir \cup {f} |-> IF g = f THEN <<>> ELSE dir[g]]

\* Lines 408-411 and 424: the test "now - last_hb_emit >= 30.0".  When it holds
\* last_hb_emit is set and the snapshot built; otherwise the turn ends with the sleep.
HbCheck ==
    /\ pc = "hb"
    /\ IF hbDue
       THEN /\ hbDue' = FALSE
            /\ hb_count' = hb_count + 1
            /\ hb' = Some(hb_snapshot)
            /\ pc' = "hb_open"
       ELSE /\ pc' = "loop"
            /\ UNCHANGED <<hbDue, hb_count, hb>>
    /\ UNCHANGED <<today, wvars, mode, run_id, reconnecting, exit_code, exit_cause,
                   sock, seq, events_written, buffer, netOpen, connCount, srvRest,
                   rxCount, linkUp, authed, elog, droplog, loginRx>>
    /\ UNCHANGED <<hbDir, kvars, feed, evars, dvars, idle>>

\* write_json_atomic, lines 232-234: mkdir, the tmp path, open(tmp, "w").  An
\* exception is not caught before main's "except Exception".
HbOpen ==
    /\ pc = "hb_open"
    /\ \/ /\ hbDir' = open_w(hbDir, tmp_of(hb_path))
          /\ pc' = "hb_dump"
          /\ UNCHANGED <<exit_code, exit_cause, sock, netOpen>>
       \/ /\ Exit(1, "heartbeat_failed")
          /\ UNCHANGED hbDir
    /\ UNCHANGED <<today, wvars, mode, run_id, reconnecting, seq, events_written,
                   buffer, connCount, srvRest, rxCount, linkUp, authed, elog,
                   droplog, loginRx>>
    /\ UNCHANGED <<hbDue, hb_count, hb, kvars, feed, evars, dvars, idle>>

\* write_json_atomic, lines 234-235: json.dump and the close that ends "with".  The
\* file may get the first HbChunk tokens before it gets them all.
HbDump ==
    /\ pc = "hb_dump"
    /\ LET tmp == tmp_of(hb_path)
           all == hb_dumps(hb[1])
       IN \/ /\ hbDir[tmp] = <<>>
             /\ hbDir' = [hbDir EXCEPT ![tmp] = SubSeq(all, 1, HbChunk)]
             /\ pc' = "hb_dump"
             /\ UNCHANGED <<exit_code, exit_cause, sock, netOpen>>
          \/ /\ hbDir' = [hbDir EXCEPT ![tmp] = all]
             /\ pc' = "hb_replace"
             /\ UNCHANGED <<exit_code, exit_cause, sock, netOpen>>
          \/ /\ Exit(1, "heartbeat_failed")
             /\ UNCHANGED hbDir
    /\ UNCHANGED <<today, wvars, mode, run_id, reconnecting, seq, events_written,
                   buffer, connCount, srvRest, rxCount, linkUp, authed, elog,
                   droplog, loginRx>>
    /\ UNCHANGED <<hbDue, hb_count, hb, kvars, feed, evars, dvars, idle>>

\* write_json_atomic, line 236: os.replace(tmp, path); then lines 422-424.
HbReplace ==
    /\ pc = "hb_replace"
    /\ \/ /\ hbDir' = os_replace(hbDir, tmp_of(hb_path), hb_path)
          /\ pc' = "loop"
          /\ UNCHANGED <<exit_code, exit_cause, sock, netOpen>>
       \/ /\ Exit(1, "heartbeat_failed")
          /\ UNCHANGED hbDir
    /\ UNCHANGED <<today, wvars, mode, run_id, reconnecting, seq, events_written,
                   buffer, connCount, srvRest, rxCount, linkUp, authed, elog,
                   droplog, loginRx>>
    /\ UNCHANGED <<hbDue, hb_count, hb, kvars, feed, evars, dvars, idle>>

\* Thirty seconds have passed since last_hb_emit.
HbTimer ==
    /\ pc # "exited"
    /\ ~hbDue
    /\ hb_count < MaxHb
    /\ hbDue' = TRUE
    /\ UNCHANGED <<today, wvars, bvars, hb_count, hb, hbDir, kvars, feed, evars, dvars, idle>>

\* KeyboardInterrupt: main logs it, closes the socket and returns 0.
Interrupt ==
    /\ pc # "exited"
    /\ Exit(0, "interrupt")
    /\ UNCHANGED <<today, wvars, mode, run_id, reconnecting, seq, events_written,
                   buffer, connCount, srvRest, rxCount, linkUp, authed, elog,
                   droplog, loginRx>>
    /\ UNCHANGED <<tvars, idle>>

\* The far end closes the connection, or the network drops it.
LinkDown ==
    /\ pc # "exited"
    /\ sock # None
    /\ linkUp
    /\ linkUp' = FALSE
    /\ UNCHANGED <<today, wvars, mode, run_id, pc, reconnecting, exit_code,
                   exit_cause, sock, seq, events_written, buffer, netOpen, connCount,
                   srvRest, rxCount, authed, elog, droplog, loginRx>>
    /\ UNCHANGED <<tvars, idle>>

\* Midnight passes while the bridge runs.
BTick ==
    /\ pc # "exited"
    /\ Tick

Next ==
    \/ Connect \/ LoginBanner \/ LoginAuth \/ LoginResp \/ LoginWho \/ LoginWhoResp
    \/ Ready0 \/ LoopTop \/ ReconnectClose \/ ReconnectDone \/ Recv \/ Lines
    \/ HbCheck \/ HbOpen \/ HbDump \/ HbReplace \/ Interrupt \/ LinkDown \/ BTick

Spec == Init /\ [][Next]_vars

(***************************************************************************)
(* bridge.py: the KeepAlive thread, started by main at line 316.  One turn  *)
(* of run() is the test of mux.sock, send_line's own test, sendall, and the *)
(* sleep; main may run between any two of them.                             *)
(***************************************************************************)
\* main's positions inside connect and login.
LoginPcs == {"connect", "banner", "auth", "resp", "who", "whoresp"}

\* A run() without its try/except: the exception ends the thread.
KaDiesOnError == "dead"

\* Lines 226-228: the exception is logged, the thread sleeps and goes on.
KaAfterError == "sleep"

\* Line 224: "if self.mux.sock:".
KaWake ==
    /\ pc # "exited"
    /\ ka_pc = "sleep"
    /\ ka_pc' = IF sock # None THEN "checked" ELSE "sleep"
    /\ UNCHANGED <<today, wvars, bvars, hvars, ka_log, ping, feed, evars, dvars, idle>>

\* send_line, lines 170-171: "if not self.sock: raise RuntimeError".
KaSendLine ==
    /\ pc # "exited"
    /\ ka_pc = "checked"
    /\ IF sock = None
       THEN /\ ka_log' = "not_connected"
            /\ ka_pc' = KaAfterError
       ELSE /\ ka_pc' = "sending"
            /\ UNCHANGED ka_log
    /\ UNCHANGED <<today, wvars, bvars, hvars, ping, feed, evars, dvars, idle>>

\* send_line, line 172: self.sock.sendall(...).  mux.sock may be None by now, or the
\* socket closed under the call; on a connection that is down sendall may raise or
\* hand the line to the system.  Otherwise "+ping" is sent on whatever socket
\* mux.sock is now.
KaSendAll ==
    /\ pc # "exited"
    /\ ka_pc = "sending"
    /\ \/ /\ sock = None
          /\ ka_log' \in {"attribute_error", "bad_descriptor"}
          /\ ka_pc' = KaAfterError
          /\ UNCHANGED ping
       \/ /\ sock # None /\ ~linkUp
          /\ ka_log' = "send_failed"
          /\ ka_pc' = KaAfterError
          /\ UNCHANGED ping
       \/ /\ sock # None
          /\ ping' = Some([login_done |-> pc \notin LoginPcs, idle |-> idle])
          /\ ka_pc' = "sleep"
          /\ UNCHANGED ka_log
    /\ UNCHANGED <<today, wvars, bvars, hvars, feed, evars, dvars, idle>>

\* Sixty seconds have passed since anything was received.
IdleTimer ==
    /\ pc # "exited"
    /\ ~idle
    /\ idle' = TRUE
    /\ UNCHANGED <<today, wvars, bvars, tvars>>

\* The steps of main's own thread outside the line loop.  main is a running loop
\* whose blocking calls are bounded by timeouts, so it takes its next step whenever
\* it has one.
MainStep ==
    \/ Connect \/ LoginBanner \/ LoginAuth \/ LoginResp \/ LoginWho \/ LoginWhoResp
    \/ Ready0 \/ LoopTop \/ ReconnectClose \/ ReconnectDone \/ Recv
    \/ HbCheck \/ HbOpen \/ HbDump \/ HbReplace

\* The same for the line loop, whose step is possible exactly when pc = "lines":
\* weak fairness of Lines with its enabling condition written out.
LinesFair == <>[](pc = "lines") => []<><<Lines>>_vars

FairSpec == Spec /\ WF_vars(MainStep) /\ LinesFair

\* main with its heartbeat timer, the far end sending one kind of line.
HbInit == WInit /\ BInit /\ DInit /\ SInit /\ XOff /\ mode = "record" /\ feed = {L_SAY}

HbNext == Next \/ HbTimer

HbSpec == HbInit /\ [][HbNext]_vars

\* The run driver of the bot.
BotInit == WInit /\ BInit /\ DInit /\ SInit /\ XOff /\ mode = "record" /\ feed = {}

BotNext == DNew \/ DConnect \/ DLogin \/ DPeerClose \/ DLoop \/ DExcept

BotSpec == BotInit /\ [][BotNext]_vars

\* main, the far end sending a marker line behind a telnet negotiation.
WireInit == WInit /\ BInit /\ DInit /\ SInit /\ XOff /\ mode = "record" /\ feed = {L_IAC_SAY}

WireSpec == WireInit /\ [][Next]_vars

\* The bridge and the bot are programs of their own that share nothing: a run of
\* the one, or a run of the other, from the state in which neither has begun.
SockInit == WInit /\ BInit /\ DInit /\ SInit /\ XOff /\ mode = "record" /\ feed = {L_TEXT}

BotNotBegun == d_pc = "new" /\ d_total = 0

BridgeNotBegun == pc = "connect" /\ connCount = 0

BridgeRuns == BotNotBegun /\ Next

BotRuns == BridgeNotBegun /\ BotNext

SockNext == BridgeRuns \/ BotRuns

SockSpec == SockInit /\ [][SockNext]_vars

\* smart_decode called once, with any input.
DecodeInit == WInit /\ BInit /\ DInit /\ SInit /\ XInit /\ mode = "record" /\ feed = {}

DecodeNext == DecodeCall \/ StripScan \/ StripSb \/ DecodeCleaned

DecodeSpec == DecodeInit /\ [][DecodeNext]_vars

\* The call runs on: smart_decode is straight-line code on its caller's thread.
DecodeFairSpec == DecodeSpec /\ WF_vars(DecodeNext)

(***************************************************************************)
(* The line loop on its own: main has logged in, is Ready, and its first    *)
(* receive has delivered one whole line, drawn from the lines below.        *)
(***************************************************************************)
\* What may stand before the payload.
Prefixes ==
    { <<"NOESIS", ":", " ">>, <<"NOESIS", " ">>, <<"NOESIS", ":">>,
      <<" ", "\t", "NOESIS", ":", " ">>, <<"noesis", ":", " ">>,
      <<"Noesis", " ">>, <<"Bob", " ", "says", " ">>, <<>> }

\* A key that is not given, given with an empty value, or given with value x.
Absent == [has |-> FALSE, v |-> <<>>]
Empty == [has |-> TRUE, v |-> <<>>]
Given(x) == [has |-> TRUE, v |-> <<x>>]

\* The field k=v of a choice, or no field.
Field(k, c) == IF c.has THEN << <<k, "=">> \o c.v >> ELSE <<>>

\* Fields that are not plain pairs: no "=", empty, blanks around key and value with a
\* second "=", and a key that was given before.
OddFields ==
    { <<>>, << <<"junk">> >>, << <<>> >>,
      << <<" ", "verb", " ", "=", " ", "a", "=", "b", " ">> >>,
      << <<"actor", "=", "#9">> >> }

RECURSIVE Join(_)
Join(fs) ==
    IF fs = <<>> THEN <<>>
    ELSE IF Len(fs) = 1 THEN fs[1]
    ELSE fs[1] \o <<"|">> \o Join(Tail(fs))

\* The payloads: every choice of t, actor, an odd field, loc, from, to and raw.
Payloads ==
    { Join(Field("t", t) \o Field("actor", a) \o odd \o Field("loc", l)
           \o Field("from", f) \o Field("to", o) \o Field("raw", r)) :
        t \in {Absent, Empty, Given("SAY"), Given("MOVE"), Given("EMOTE")},
        a \in {Absent, Empty, Given("#1")},
        odd \in OddFields,
        l \in {Absent, Given("#2")}, f \in {Absent, Given("#2")},
        o \in {Absent, Given("#3")}, r \in {Absent, Given("hello")} }

LineInputs == { pre \o pay : pre \in Prefixes, pay \in Payloads }

LineInit ==
    /\ WInit /\ DInit /\ SInit /\ XOff
    /\ mode = "record" /\ run_id = 1 /\ pc = "lines" /\ reconnecting = FALSE
    /\ exit_code = None /\ exit_cause = ""
    /\ sock = Some(1) /\ netOpen = {1} /\ connCount = 1 /\ linkUp = TRUE
    /\ authed = {1}
    /\ seq = 0 /\ events_written = 0
    /\ srvRest = <<>> /\ rxCount = 1
    /\ \E l \in LineInputs :
          /\ feed = {l}
          /\ buffer = ReplaceCr(ReceivedBy(Tag(l \o <<LF>>, 1, 1), "loop"))
    /\ elog = <<>> /\ droplog = {} /\ loginRx = {}
    /\ idle = FALSE
    /\ hbDue = TRUE /\ hb_count = 0 /\ hb = None /\ hbDir = [f \in {} |-> <<>>]
    /\ ka_pc = "sleep" /\ ka_log = "" /\ ping = None

LineNext == Lines

LineSpec == LineInit /\ [][LineNext]_vars

\* The heartbeat taken as a context of its own: its steps are taken whenever they
\* can be, whatever time main spends elsewhere.
HbStep == HbCheck \/ HbOpen \/ HbDump \/ HbReplace

HbFairSpec == HbSpec /\ WF_vars(HbStep)

\* main with the keepalive thread, the far end sending one kind of line.
KaInit == WInit /\ BInit /\ DInit /\ SInit /\ XOff /\ mode = "record" /\ feed = {L_TEXT}

KaNext == Next \/ IdleTimer \/ KaWake \/ KaSendLine \/ KaSendAll

KaSpec == KaInit /\ [][KaNext]_vars

KaFairSpec == KaSpec /\ WF_vars(MainStep) /\ LinesFair

(***************************************************************************)
(* Properties of the event log writer.                                     *)
(***************************************************************************)
\* The events of the calls that returned with the file `p` as their day's file.
WrittenTo(p) == SelectSeq(written, LAMBDA w : events_path(w.day) = p)

WrittenDays == {written[i].day : i \in 1..Len(written)}

\* C8: after any sequence of write_event calls, the files that exist are the files
\* of the days on which a call was made, one file per such day, and each file
\* reads back, line by line, as exactly the events written on its day, in write
\* order, with no unterminated or extra line.
C8_DayFilesHoldTheirWrites ==
    /\ DOMAIN files = {events_path(d) : d \in WrittenDays}
    /\ Cardinality(DOMAIN files) = Cardinality(WrittenDays)
    /\ \A p \in DOMAIN files :
          LET lines == FileLines(files[p])
              evs == WrittenTo(p)
          IN /\ FileRest(files[p]) = <<>>
             /\ Len(lines) = Len(evs)
             /\ \A i \in 1..Len(lines) : json_loads(lines[i]) = evs[i].event

\* Two days' files exist, one of them with two lines, and an event whose text holds
\* a line feed was written.
C8_Witness ==
    /\ Cardinality(DOMAIN files) = 2
    /\ Len(written) = 3
    /\ \E p \in DOMAIN files : Len(FileLines(files[p])) = 2
    /\ \E i \in 1..Len(written) :
          \E j \in 1..Len(written[i].event.text) : written[i].event.text[j] = LF

\* C9: at most one file handle is open at any time, also inside a rotation; an
\* open handle is the handle of _current_day's file and of _current_path; with no
\* handle held (initially, after close()) no file is open.
C9_AtMostOneOpenFile ==
    /\ Len(openHandles) <= 1
    /\ peakOpen <= 1
    /\ w_fh # None =>
          /\ openHandles = w_fh
          /\ w_current_day # None
          /\ w_fh = Some(events_path(w_current_day[1]))
          /\ w_current_path = w_fh
    /\ w_fh = None =>
          /\ openHandles = <<>>
          /\ w_current_day = None
          /\ w_current_path = None

\* A write on a later day has rotated the file: the second day's file is the open one.
C9_Witness ==
    /\ rotations >= 1
    /\ w_fh = Some(events_path(DayOf(2)))
    /\ events_path(DayOf(1)) \in DOMAIN files

\* The record of every returned write_event call is a line of its day's file.
EveryWriteOnFile ==
    \A i \in 1..Len(written) :
        LET p == events_path(written[i].day)
        IN /\ p \in DOMAIN files
           /\ \E k \in 1..Len(FileLines(files[p])) :
                 json_loads(FileLines(files[p])[k]) = written[i].event

\* C10: once write_event has returned, a crash of the process or of the machine
\* does not lose the record.
C10_RecordSurvivesCrash == machine # "up" => EveryWriteOnFile

(***************************************************************************)
(* Properties of the bridge.                                               *)
(***************************************************************************)
LoopPcs == {"loop", "recv", "lines", "hb", "hb_open", "hb_dump", "hb_replace"}

\* The session states of the design, read off main's position and mux.sock.
Ready == pc \in LoopPcs /\ sock # None
Degraded == pc \in LoopPcs /\ sock = None

\* The event log read back: the records of the day files, in day order.
RECURSIVE ReadLog(_)
ReadLog(n) ==
    IF n = 0 THEN <<>>
    ELSE LET p == events_path(DayOf(n))
             lines == IF p \in DOMAIN files THEN FileLines(files[p]) ELSE <<>>
         IN ReadLog(n - 1) \o [i \in 1..Len(lines) |-> json_loads(lines[i])]

LogRecords == ReadLog(MaxDay)

\* C1: the k-th record of the event log carries seq = k, and the records are in
\* the order in which their lines arrived.
C1_SeqNumbersRecords ==
    /\ Len(LogRecords) = Len(elog)
    /\ \A k \in 1..Len(LogRecords) :
          LogRecords[k].meta.seq = k /\ elog[k].seq = k
    /\ \A k \in 1..(Len(elog) - 1) :
          \A a \in elog[k].ids : \A b \in elog[k + 1].ids : a < b

\* Two records were written, with a reconnect between them.
C1_Witness ==
    /\ Len(elog) = 2
    /\ elog[1].conn = 1
    /\ elog[2].conn = 2

\* A marker line that main drops: no t key, a kind that is neither SAY nor MOVE, or
\* a mandatory key of its kind missing.
IsDropped(kv) ==
    LET has(k) == <<k>> \in DOMAIN kv
    IN \/ ~has("t")
       \/ kv[<<"t">>] \notin {<<"SAY">>, <<"MOVE">>}
       \/ kv[<<"t">>] = <<"SAY">> /\ ~(has("actor") /\ has("loc"))
       \/ kv[<<"t">>] = <<"MOVE">> /\ ~(has("actor") /\ has("from") /\ has("to"))

\* main is about to process such a line, in record mode.
AtDroppedMarker ==
    /\ pc = "lines"
    /\ mode = "record"
    /\ IndexOf(Text(buffer), LF) # 0
    /\ prefix_match(Text(FirstLine)).matched
    /\ IsDropped(parse_noesis_kv(Text(FirstLine)))

LastWrittenSeq == IF elog = <<>> THEN 0 ELSE elog[Len(elog)].seq

\* C2: a step that processes a dropped marker line leaves seq, events_written and
\* the event log as they are, and every record appended carries the last written
\* seq plus 1.
C2_DropConsumesNoSeq ==
    [][ /\ AtDroppedMarker =>
            /\ seq' = seq
            /\ events_written' = events_written
            /\ files' = files
            /\ elog' = elog
        /\ Len(elog') = Len(elog) + 1 =>
            /\ elog'[Len(elog')].seq = LastWrittenSeq + 1
            /\ LogRecords'[Len(elog')].meta.seq = LastWrittenSeq + 1 ]_vars

\* The first line was dropped for a missing mandatory key and reported, the second
\* became the first record.
C2_Witness ==
    /\ droplog = {1}
    /\ Len(elog) = 1
    /\ elog[1].ids = {2}
    /\ elog[1].seq = 1

\* C3: a record written on a later connection than another carries the same run_id
\* and a greater seq, and was written after the authentication command was sent on
\* its connection; the records on file carry these seq and run_id.
C3_SeqContinuesAcrossReconnect ==
    /\ \A i, j \in 1..Len(elog) :
          elog[i].conn < elog[j].conn =>
             /\ elog[j].seq > elog[i].seq
             /\ elog[j].run_id = elog[i].run_id
             /\ elog[j].conn \in authed
    /\ Len(LogRecords) = Len(elog)
    /\ \A k \in 1..Len(elog) :
          /\ LogRecords[k].meta.seq = elog[k].seq
          /\ LogRecords[k].meta.run_id = elog[k].run_id

\* A record was written on the first connection and one on the second.
C3_Witness ==
    \E i, j \in 1..Len(elog) : elog[i].conn = 1 /\ elog[j].conn = 2

\* C4: no failed connect, receive error or peer close ends main.
C4_ConnectivityErrorNeverExits ==
    exit_cause \notin {"connect_failed", "not_connected", "send_failed"}

\* C5: a receive on a connection that is down closes the socket and leaves Ready;
\* data is received or parsed in the loop only on a socket on which the login was
\* done; and a degraded session becomes Ready again unless main ends because the
\* server cannot be reached, drops the connection during login, rejects the login,
\* the user interrupts, or the heartbeat file cannot be written (the fault of C13).
C5_RecvErrorLeavesReady ==
    /\ [][ /\ (pc = "recv" /\ sock # None /\ ~linkUp /\ pc' # "recv") =>
                (sock' = None /\ sock[1] \notin netOpen')
           /\ (pc \in {"recv", "lines"} /\ buffer' # buffer) =>
                (sock # None /\ sock[1] \in authed) ]_vars
    /\ [](Ready => sock[1] \in authed /\ sock[1] \in netOpen)
    /\ (Degraded ~>
          (Ready \/ exit_cause \in {"connect_failed", "not_connected", "send_failed",
                                    "login_rejected", "interrupt",
                                    "heartbeat_failed"}))

\* The session is Ready on a second connection after a record was written on the first.
C5_Witness ==
    /\ Ready
    /\ sock = Some(2)
    /\ \E i \in 1..Len(elog) : elog[i].conn = 1

\* C6: a record is appended only while Ready; nothing received inside a window of
\* login reaches main's buffer or a record; and a line is parsed only on a
\* connection on which the authentication command was sent.
C6_TelemetryOnlyWhileReady ==
    /\ [][ /\ elog' # elog => (Ready /\ sock[1] \in authed)
           /\ (pc = "lines" /\ buffer' # buffer) =>
                (Ready /\ \A i \in 1..Len(buffer) : buffer[i].conn \in authed) ]_vars
    /\ [](/\ \A i \in 1..Len(buffer) : buffer[i].rx = "loop"
          /\ \A k \in 1..Len(elog) : elog[k].rx = {"loop"}
          /\ pc \notin LoopPcs => Len(elog) = Len(written))

\* Part of a line arrived inside a login window, and a record was written on the
\* second connection.
C6_Witness ==
    /\ loginRx # {}
    /\ \E k \in 1..Len(elog) : elog[k].conn = 2

\* C7: a rejected login does not end main.
C7_RejectedLoginKeepsRetrying == exit_cause # "login_rejected"

\* C11: a write or flush that fails is not swallowed: main stops with an error, no
\* record is appended afterwards, and a new session is started.
C11_WriteFailureRestartsSession ==
    /\ [](exit_cause = "write_failed" => exit_code = Some(1))
    /\ [][exit_cause = "write_failed" => (elog' = elog /\ files' = files)]_vars
    /\ (exit_cause = "write_failed" ~> pc # "exited")

\* What json.load gives a reader for a content that is not a complete document.
BadSnapshot == [ts |-> 0, mux_connected |-> FALSE, events_written |-> 0, run_id |-> 0]

\* What a reader of a heartbeat file gets from json.load.
hb_loads(c) ==
    IF Len(c) = 6 /\ c[1] = "{" /\ c[6] = "}"
    THEN [ts |-> c[2][2], mux_connected |-> c[3][2], events_written |-> c[4][2],
          run_id |-> c[5][2]]
    ELSE BadSnapshot

HbWriting == pc \in {"hb_open", "hb_dump", "hb_replace"}

\* C12: whenever bridge.heartbeat.json exists its content is a complete snapshot,
\* the one of the emission in progress or of the one before it; and when no emission
\* is in progress it is exactly the snapshot emitted last.
C12_HeartbeatNeverPartial ==
    /\ hb_path \in DOMAIN hbDir =>
          /\ hb_loads(hbDir[hb_path]) # BadSnapshot
          /\ hb_loads(hbDir[hb_path]).run_id = run_id
          /\ hb_loads(hbDir[hb_path]).ts \in {hb_count - 1, hb_count} \ {0}
          /\ hbDir[hb_path] = hb_dumps(hb_loads(hbDir[hb_path]))
    /\ (hb_count >= 1 /\ ~HbWriting /\ pc # "exited") =>
          /\ hb_path \in DOMAIN hbDir
          /\ hbDir[hb_path] = hb_dumps(hb[1])
          /\ hb[1].ts = hb_count

\* The second emission is in progress, its temporary file half written, and the
\* heartbeat file holds the whole first snapshot.
C12_Witness ==
    /\ hb_count = 2
    /\ pc = "hb_dump"
    /\ Len(hbDir[tmp_of(hb_path)]) = HbChunk
    /\ hb_path \in DOMAIN hbDir
    /\ hb_loads(hbDir[hb_path]).ts = 1

\* C13: a heartbeat that cannot be written does not end main.
C13_HeartbeatFailureHarmless == exit_cause # "heartbeat_failed"

\* main is inside reconnect() or login.
Reconnecting == pc \in LoginPcs \cup {"rclose", "rdone"}

C15_KeepaliveOnlyReadyAndIdle ==
    ping # None => (ping[1].login_done /\ ping[1].idle)

\* C16: the keepalive thread never ends; a step of it changes nothing of main, of
\* the socket, of the counters or of the files; and main always leaves its receive.
C16_KeepaliveHarmless ==
    /\ [](ka_pc # "dead")
    /\ [][(ka_pc # "off" /\ kvars' # kvars) =>
            UNCHANGED <<today, wvars, bvars, hvars>>]_vars
    /\ []((pc = "recv") => <>(pc # "recv"))

\* The thread found the socket gone after it had tested it, logged the exception
\* and sleeps, and main has replaced the socket since.
C16_Witness ==
    /\ ka_log \in {"not_connected", "attribute_error", "bad_descriptor"}
    /\ ka_pc = "sleep"
    /\ sock = Some(2)
    /\ Ready

\* 1.7^n in units of 10^-7, for n <= 7.
Pow_1_7(n) == 17^n * 10^(7 - n)

\* min(1 x 1.7^(k-1), 30): 1.7^6 < 30 < 1.7^7.
ExpectedWait(k) == IF k - 1 >= 7 THEN BackoffCap ELSE Min(Pow_1_7(k - 1), BackoffCap)

\* C17: the wait after the k-th failure in a row is min(1.7^(k-1), 30); the backoff
\* stays between 1 and 30, and the first failure after a login that succeeded is
\* followed by a wait of 1.
C17_BackoffSchedule ==
    /\ d_k >= 1 => d_waited = ExpectedWait(d_k)
    /\ BackoffInit <= backoff /\ backoff <= BackoffCap
    /\ d_total >= 1 => (BackoffInit <= d_waited /\ d_waited <= BackoffCap)
    /\ d_k = 1 => d_waited = BackoffInit
    /\ d_pc = "loop" => backoff = BackoffInit

\* Eight sessions failed in a row and the last wait was the cap.
C17_Witness ==
    /\ d_k = 8
    /\ d_waited = BackoffCap
    /\ d_pc = "new"

\* main is about to split a line off its buffer.
HasLine == pc = "lines" /\ IndexOf(Text(buffer), LF) # 0

\* The line as main passes it to parse_noesis_kv.
InputLine == Text(FirstLine)

\* main has processed the line it received.
Processed == pc = "lines" /\ buffer = <<>> /\ rxCount = 1

\* str.upper() of a word of the lines above.
upper(w) == IF w \in {"noesis", "Noesis"} THEN "NOESIS" ELSE w

\* The line with its first word after the leading blanks in upper case.
UpperPrefix(line) ==
    LET lead == Len(line) - Len(lstrip(line))
    IN IF lstrip(line) = <<>> THEN line
       ELSE [line EXCEPT ![lead + 1] = upper(@)]

\* The line starts, after its leading blanks, with the marker in any letter case.
StartsWithMarker(line) ==
    lstrip(line) # <<>> /\ upper(lstrip(line)[1]) = "NOESIS"

\* C18: parse_noesis_kv gives a mapping only for a line that starts with the
\* marker after its leading blanks, and gives the same result for two lines that
\* differ only in the letter case of the marker.
C18_PrefixCaseInsensitive ==
    \A f \in feed :
      \A l \in {f, strip(f)} :
         /\ parse_noesis_kv(l) # None => StartsWithMarker(l)
         /\ parse_noesis_kv(l) = parse_noesis_kv(UpperPrefix(l))

\* The fields of a line's payload, and those of them that hold a pair.
FieldsOf(line) == split(strip(prefix_match(line).payload), "|")
PairFields(line) ==
    {i \in 1..Len(FieldsOf(line)) :
        FieldsOf(line)[i] # <<>> /\ IndexOf(FieldsOf(line)[i], "=") # 0}
KeyOf(f) == strip(SubSeq(f, 1, IndexOf(f, "=") - 1))
ValOf(f) == strip(SubSeq(f, IndexOf(f, "=") + 1, Len(f)))

\* The mapping the fields describe: each key with the value of its last field.
FieldMapping(line) ==
    LET fs == FieldsOf(line)
        good == PairFields(line)
        last(k) == CHOOSE i \in good :
                      KeyOf(fs[i]) = k /\ \A j \in good : KeyOf(fs[j]) = k => j <= i
    IN [k \in {KeyOf(fs[i]) : i \in good} |-> ValOf(fs[last(k)])]

\* C19: for a line with the marker, parse_noesis_kv gives the mapping of the
\* payload's fields that hold a pair, whatever other fields stand beside them, and
\* no mapping when there is no such field.
C19_PayloadDecoding ==
    \A f \in feed :
      LET l == strip(f)
      IN prefix_match(l).matched =>
           /\ PairFields(l) = {} => parse_noesis_kv(l) = None
           /\ PairFields(l) # {} =>
                 /\ DOMAIN parse_noesis_kv(l) = DOMAIN FieldMapping(l)
                 /\ \A k \in DOMAIN FieldMapping(l) :
                       parse_noesis_kv(l)[k] = FieldMapping(l)[k]
                 /\ \A i \in PairFields(l) :
                       KeyOf(FieldsOf(l)[i]) \in DOMAIN parse_noesis_kv(l)

\* main has processed a line with a field without "=" between pairs, and the line
\* became an event.
C19_Witness ==
    /\ Processed
    /\ Len(elog) = 1
    /\ \E f \in feed :
          /\ prefix_match(f).matched
          /\ \E i \in 1..Len(FieldsOf(f)) :
                /\ FieldsOf(f)[i] = <<"junk">>
                /\ \E a, b \in PairFields(f) : a < i /\ i < b
          /\ Cardinality(DOMAIN parse_noesis_kv(f)) >= 4

\* The key is in the mapping; and it is there with a value that is not empty.
HasKey(kv, k) == <<k>> \in DOMAIN kv
Present(kv, k) == HasKey(kv, k) /\ kv[<<k>>] # <<>>

KnownKind(kv) == HasKey(kv, "t") /\ kv[<<"t">>] \in {<<"SAY">>, <<"MOVE">>}

\* What a step that processes a marker line with mapping kv has to do, given
\* whether the line has what its kind demands.
LineOutcome(kv, complete) ==
    /\ complete => (Len(elog') = Len(elog) + 1 \/ exit_cause' = "write_failed")
    /\ ~complete => (elog' = elog /\ files' = files)
    /\ Len(elog') = Len(elog) + 1 =>
          LET ev == LogRecords'[Len(elog')]
          IN /\ <<ev.meta.type>> = kv[<<"t">>]
             /\ ev.meta.actor = kv[<<"actor">>]
             /\ ev.text = kv_get(kv, "raw")
             /\ kv[<<"t">>] = <<"SAY">> => ev.meta.location = kv[<<"loc">>]
             /\ kv[<<"t">>] = <<"MOVE">> =>
                   (ev.meta.from = kv[<<"from">>] /\ ev.meta.to = kv[<<"to">>])
    /\ (KnownKind(kv) /\ ~complete) => LineIds(FirstLine) \subseteq droplog'

AtMarkerLine == HasLine /\ parse_noesis_kv(InputLine) # None

\* C20, as stated: a marker line becomes an event exactly when it has a t key of a
\* known kind and the mapping has every mandatory key of that kind.
C20_EventIffKeysInMapping ==
    [][AtMarkerLine =>
         LET kv == parse_noesis_kv(InputLine)
         IN LineOutcome(kv,
               /\ KnownKind(kv)
               /\ HasKey(kv, "actor")
               /\ kv[<<"t">>] = <<"SAY">> => HasKey(kv, "loc")
               /\ kv[<<"t">>] = <<"MOVE">> => (HasKey(kv, "from") /\ HasKey(kv, "to")))]_vars

\* C20, amended: a marker line becomes an event exactly when it has a t key of a
\* known kind and every mandatory key of that kind with a value that is not empty;
\* the event has the line's type, actor, location and raw text; a missing raw or
\* verb drops nothing; and a SAY or MOVE that is dropped is reported.
C20_EventIffMandatoryValues ==
    [][AtMarkerLine =>
         LET kv == parse_noesis_kv(InputLine)
         IN LineOutcome(kv,
               /\ KnownKind(kv)
               /\ Present(kv, "actor")
               /\ kv[<<"t">>] = <<"SAY">> => Present(kv, "loc")
               /\ kv[<<"t">>] = <<"MOVE">> => (Present(kv, "from") /\ Present(kv, "to")))]_vars

\* main has made an event of a SAY line that has actor and loc and no raw.
C20_Witness ==
    /\ Processed
    /\ Len(elog) = 1
    /\ LogRecords[1].meta.type = "SAY"
    /\ LogRecords[1].text = <<>>
    /\ \E f \in feed : ~HasKey(parse_noesis_kv(strip(f)), "raw")

(***************************************************************************)
(* Properties of the stream decoder.                                       *)
(***************************************************************************)
Drop(d, k) == SubSeq(d, k + 1, Len(d))

\* strip_telnet_iac has returned.
Stripped == t_pc \in {"stripped", "returned"}

\* Where, counted from 0 and not before from, an escape is followed by SE.
Terminators(d, from) == { k \in from..(Len(d) - 2) : d[k + 1] = IAC /\ d[k + 2] = SE }

MinOf(S) == CHOOSE k \in S : \A m \in S : k <= m

\* Whether a left-to-right reading of d meets an escape followed by SB.
RECURSIVE HasBlock(_)
HasBlock(d) ==
    IF Len(d) < 2 THEN FALSE
    ELSE IF d[1] # IAC THEN HasBlock(Tail(d))
    ELSE IF d[2] = SB THEN TRUE
    ELSE IF d[2] \in Negotiation THEN HasBlock(Drop(d, 3))
    ELSE HasBlock(Drop(d, 2))

\* The removals of the design, read left to right; lone is what an escape that is
\* the last byte of the input leaves behind.
RECURSIVE Removals(_, _)
Removals(d, lone) ==
    IF d = <<>> THEN <<>>
    ELSE IF d[1] # IAC THEN <<d[1]>> \o Removals(Tail(d), lone)
    ELSE IF Len(d) = 1 THEN lone
    ELSE IF d[2] = IAC THEN <<IAC>> \o Removals(Drop(d, 2), lone)
    ELSE IF d[2] = SB
         THEN IF Terminators(d, 2) = {} THEN <<>>
              ELSE Removals(Drop(d, MinOf(Terminators(d, 2)) + 2), lone)
    ELSE IF d[2] \in Negotiation THEN Removals(Drop(d, 3), lone)
    ELSE Removals(Drop(d, 2), lone)

\* C21 as stated: on an input without a subnegotiation block strip_telnet_iac makes
\* exactly the three removals (escape escape to one 255, escape and negotiation code
\* with the option byte, escape and any other byte) and copies every other byte,
\* an escape that ends the input included.
C21_ExactlyTheseRemovals ==
    (Stripped /\ ~HasBlock(t_data)) => t_out = Removals(t_data, <<IAC>>)

\* C21: on an input without a subnegotiation block strip_telnet_iac makes exactly
\* the three removals, drops an escape that is the last byte of the input, and
\* copies every other byte in order.
C21_RemovalsAndLoneEscape ==
    (Stripped /\ ~HasBlock(t_data)) => t_out = Removals(t_data, <<>>)

\* An input without a block was decoded: something was removed, and a literal 255
\* and a letter were kept.
C21_Witness ==
    /\ t_pc = "returned"
    /\ ~HasBlock(t_data)
    /\ Len(t_out) + 3 <= Len(t_data)
    /\ \E j, k \in 1..Len(t_out) : t_out[j] = IAC /\ t_out[k] = 65

IsPrefix(a, b) == Len(a) <= Len(b) /\ SubSeq(b, 1, Len(a)) = a

\* C22: nothing is emitted while a subnegotiation block is skipped and what was
\* emitted before it stays; the scan resumes on the byte after the first escape-SE
\* pair of the block, or has used up the input when there is none; so the output
\* is what the bytes before and after the block give.
C22_BlockNeverSurfaces ==
    /\ [][ /\ IsPrefix(t_out, t_out')
           /\ (t_pc = "sb" \/ t_pc' = "sb") => t_out' = t_out
           /\ (t_pc = "sb" /\ t_pc' = "scan") =>
                IF Terminators(t_data, t_sb[1] + 2) = {}
                THEN t_i' >= Len(t_data)
                ELSE t_i' = MinOf(Terminators(t_data, t_sb[1] + 2)) + 2 ]_vars
    /\ []((Stripped /\ HasBlock(t_data)) => t_out = Removals(t_data, <<>>))

\* A letter, a block with its terminator, a letter: the two letters are the output.
C22_Witness ==
    /\ t_pc = "returned"
    /\ t_data = <<65, IAC, SB, IAC, SE, 65>>
    /\ t_out = <<65, 65>>

CodePoints == 0..1114111

\* C23: smart_decode never raises, every turn of the scan's loops moves the cursor
\* forward or leaves the loop, the call returns, and what it returns is a string.
C23_DecodingIsTotal ==
    /\ [](t_pc # "raised")
    /\ [][(t_pc = "scan" \/ t_pc = "sb") => (t_i' > t_i \/ t_pc' # t_pc)]_vars
    /\ [](t_pc = "returned" =>
            /\ t_text # None
            /\ \A k \in 1..Len(t_text[1]) : t_text[1][k] \in CodePoints)
    /\ <>(t_pc = "returned")

\* The scan stopped on an escape that is the last byte of an input of several bytes.
C23_Witness ==
    /\ t_pc = "returned"
    /\ Len(t_data) >= 2
    /\ t_i = Len(t_data) - 1
    /\ t_data[Len(t_data)] = IAC

(***************************************************************************)
(* The stream decoder in the bridge's data flow.                           *)
(***************************************************************************)
\* The line main hands to parse_noesis_kv at its position, <<>> when it hands none.
ParserInput ==
    IF pc = "lines" /\ IndexOf(Text(buffer), LF) # 0 /\ mode = "record"
    THEN Text(FirstLine)
    ELSE <<>>

\* What the bytes of a negotiation are as text once recv_some has decoded them.
NegotiationText == {"U+FFFD", "0x01"}

\* C24: no byte of a telnet negotiation in the received stream is in a line handed
\* to parse_noesis_kv.
C24_NegotiationNeverParsed ==
    \A i \in 1..Len(ParserInput) : ParserInput[i] \notin NegotiationText

(***************************************************************************)
(* Properties of the session of the bot, and of the sockets of both        *)
(* programs.                                                               *)
(***************************************************************************)
\* C25: loop() takes no further turn after a zero-length read: the read ends it,
\* and main closes the socket and starts a new session.
C25_ZeroReadSurfaces == b_eof => d_pc # "loop"

\* C26: the bridge and the bot each have at most one socket open, none when they are
\* about to open one, and the one they have open is the one they hold.
C26_AtMostOneOpenSocket ==
    /\ Cardinality(netOpen) <= 1
    /\ pc = "connect" => netOpen = {}
    /\ netOpen # {} => sock # None /\ netOpen = {sock[1]}
    /\ Cardinality(b_open) <= 1
    /\ d_pc \in {"new", "connect"} => b_open = {}
    /\ b_open # {} => b_sock # None /\ b_open = {b_sock[1]}

\* Either the bridge holds its second connection, or the bot its third after two
\* sessions that failed with a socket open.
C26_Witness ==
    \/ netOpen = {2} /\ pc \in LoopPcs
    \/ b_open = {3} /\ d_pc = "loop" /\ b_eof

\* A line that asks the bot for an answer: a page, or a say that calls Elias and
\* has something after the call.
AsksElias(line) ==
    \/ line.page # None
    \/ line.say # None /\ line.say[1].call /\ line.say[1].rest # ""

\* C29: a line that asks the bot for an answer and was handled without an error
\* got exactly one page reply.
C29_OneReplyPerLine ==
    (b_last # None /\ b_last[1].done /\ AsksElias(b_last[1].line)) =>
        Len(b_last[1].replies) = 1

(***************************************************************************)
(* Properties of main's buffer and counters.                               *)
(***************************************************************************)
\* C27: reconnect() leaves the buffer empty; in the loop the buffer holds text of
\* the connection main has and of no other; and every record was made of a line
\* received on one connection, the one main had when it wrote it.
C27_ReconnectClearsBuffer ==
    /\ [][(pc = "rdone" /\ pc' = "recv") => buffer' = <<>>]_vars
    /\ []((pc \in LoopPcs /\ sock # None) =>
            \A i \in 1..Len(buffer) : buffer[i].conn = sock[1])
    /\ [](\A k \in 1..Len(elog) :
            /\ elog[k].conns = {elog[k].conn}
            /\ Cardinality(elog[k].ids) = 1)

\* The first line was cut by the failure of the first connection after a part of
\* it had reached the loop, and the only record is the one of the second line,
\* received on the second connection.
C27_Witness ==
    /\ rxCount = 2
    /\ 1 \notin loginRx
    /\ Len(elog) = 1
    /\ elog[1].ids = {2}
    /\ elog[1].conn = 2
    /\ buffer = <<>>

\* C28: the snapshot of every heartbeat main emits carries, as events_written, the
\* value of seq and the number of records appended to the event log in this run.
C28_HeartbeatCountsRecords ==
    /\ [][hb_count' > hb_count =>
            /\ hb'[1].events_written = seq'
            /\ hb'[1].events_written = Len(elog')
            /\ hb'[1].events_written = Len(LogRecords') ]_vars
    /\ [](pc \in LoopPcs \ {"lines"} => events_written = seq)

\* The second heartbeat is emitted after two records were written.
C28_Witness ==
    /\ hb_count = 2
    /\ hb # None
    /\ hb[1].ts = 2
    /\ hb[1].events_written = 2

=============================================================================
